---- MODULE Spec2Model ----
(***************************************************************************)
(* State-machine model of the three programs of the repository:            *)
(*   - PersonalWallet      (src/Wallet/wallet-2.py)                         *)
(*   - BasicWalletGUI      (src/Wallet/personal_wallet_v1.py)               *)
(*   - TaskPanel           (src/panel2.py)                                  *)
(* Each program is single-threaded and event driven: one action of the     *)
(* model is one whole handler, its trailing save included.                 *)
(***************************************************************************)
EXTENDS Integers, Sequences, FiniteSets, TLC

VARIABLES
    \* ---- PersonalWallet (wallet-2.py) ----
    transactions,   \* self.transactions : sequence of transaction records
    balance,        \* self.balance      : Decimal
    budget,         \* self.budget       : Decimal
    data_file,      \* content of wallet_data_v2.json on disk
    running,        \* TRUE while the process is alive
    last,           \* the last call and what it returned (observation only)
    maxId,          \* highest id add_transaction has assigned (observation only)
    \* ---- BasicWalletGUI (personal_wallet_v1.py) ----
    basic_balance,      \* self.balance, a float, in 1/100
    basic_transactions, \* self.transactions
    basic_file,         \* content of wallet_data.json on disk
    basic_running,      \* TRUE while the process is alive
    basic_last,         \* the last call (observation only)
    \* ---- TaskPanel (panel2.py) ----
    items,              \* self.items : sequence of task items
    next_id,            \* self._next_id
    tasks_data,         \* self.tasks_data : category -> sequence of entries
    tree,               \* self.tree.get_children() : the iids of the rows shown
    metas,              \* self.metas : iid -> the JSON text of the task
    stats_label,        \* the numbers in the text of self.stats_label
    search_var,         \* the search entry
    filter_var,         \* the status filter
    category_filter_var,\* the category filter
    tasks_file,         \* content of tasks.json on disk
    panel_running,      \* TRUE while the process is alive
    panel_last          \* the last call that wrote or read the file (observation only)

walletVars == <<transactions, balance, budget, data_file, running, last, maxId>>

basicVars == <<basic_balance, basic_transactions, basic_file, basic_running, basic_last>>

panelVars == <<items, next_id, tasks_data, tree, metas, stats_label, search_var, filter_var,
               category_filter_var, tasks_file, panel_running, panel_last>>

vars == <<walletVars, basicVars, panelVars>>

\* ------------------------------------------------------------------ bounds

MaxTx == 2          \* add_transaction is not offered beyond this many records
MaxBalance == 20    \* calls are not offered once |balance| exceeds this (in 1/1000)
MaxBasicTx == 2     \* BasicWalletGUI.add_transaction is not offered beyond this many records
MaxItems == 2       \* add_task is not offered beyond this many tasks
MaxNextId == 3      \* add_task is not offered once _next_id exceeds this

\* ------------------------------------------------------------------ Decimal

\* A Decimal is [c |-> coefficient, p |-> digits after the point]: c * 10^-p.
\* A numeral (the text of a number) is [ok, neg, int, frac]: ok = FALSE is text
\* that is not a number; frac is the sequence of digits after the point.

Pow10(n) == IF n = 0 THEN 1 ELSE IF n = 1 THEN 10 ELSE IF n = 2 THEN 100
            ELSE IF n = 3 THEN 1000 ELSE 10000

Abs(x) == IF x < 0 THEN -x ELSE x

Max(a, b) == IF a > b THEN a ELSE b

Dec(c, p) == [c |-> c, p |-> p]

Num(neg, int, frac) == [ok |-> TRUE, neg |-> neg, int |-> int, frac |-> frac]

NotANumber == [ok |-> FALSE, neg |-> FALSE, int |-> 0, frac |-> <<>>]

RECURSIVE DigitsValue(_)
DigitsValue(ds) ==
    IF ds = <<>> THEN 0
    ELSE 10 * DigitsValue(SubSeq(ds, 1, Len(ds) - 1)) + ds[Len(ds)]

\* the p digits of n, most significant first, zero padded
Digits(n, p) == [i \in 1..p |-> (n \div Pow10(p - i)) % 10]

\* Decimal(text)
ParseDecimal(t) ==
    LET mag == t.int * Pow10(Len(t.frac)) + DigitsValue(t.frac)
    IN Dec(IF t.neg THEN -mag ELSE mag, Len(t.frac))

\* str(Decimal)
DecimalStr(d) ==
    Num(d.c < 0, Abs(d.c) \div Pow10(d.p), Digits(Abs(d.c) % Pow10(d.p), d.p))

\* the coefficient of d at p digits after the point (p >= d.p)
Scaled(d, p) == d.c * Pow10(p - d.p)

DecAdd(a, b) == LET p == Max(a.p, b.p) IN Dec(Scaled(a, p) + Scaled(b, p), p)

DecSub(a, b) == LET p == Max(a.p, b.p) IN Dec(Scaled(a, p) - Scaled(b, p), p)

DecGt(a, b) == LET p == Max(a.p, b.p) IN Scaled(a, p) > Scaled(b, p)

DecEq(a, b) == LET p == Max(a.p, b.p) IN Scaled(a, p) = Scaled(b, p)

Zero2 == Dec(0, 2)      \* Decimal("0.00")

\* the value of d in 1/1000
Mills(d) == Scaled(d, 3)

\* f"{d:.2f}" : round half to even at two digits
Format2(d) ==
    LET mag == Abs(d.c)
        cents ==
            IF d.p <= 2 THEN mag * Pow10(2 - d.p)
            ELSE LET unit == Pow10(d.p - 2)
                     q == mag \div unit
                     r == mag % unit
                 IN IF 2 * r > unit \/ (2 * r = unit /\ q % 2 = 1) THEN q + 1 ELSE q
    IN Num(d.c < 0, cents \div 100, Digits(cents % 100, 2))

\* float(d) and its JSON text: the shortest decimal, trailing zeros dropped
RECURSIVE Normal(_)
Normal(d) == IF d.p > 0 /\ d.c % 10 = 0 THEN Normal(Dec(d.c \div 10, d.p - 1)) ELSE d

ToFloat(d) == Normal(d)

\* ------------------------------------------------------------------ inputs

\* what the user types into the amount entry
AmountTexts ==
    { NotANumber,                   \* "abc"
      Num(FALSE, 0, <<>>),          \* "0"
      Num(TRUE, 1, <<>>),           \* "-1"
      Num(FALSE, 0, <<0, 0, 5>>),   \* "0.005"
      Num(FALSE, 0, <<0, 1>>) }     \* "0.01"

BudgetTexts == { NotANumber, Num(FALSE, 2, <<5>>) }     \* "abc", "2.5"

TransTypes == {"income", "expense", "transfer"}

\* (category, description) as filled into the form
Forms == { [category |-> "Food", description |-> ""] }

\* datetime.now(), formatted: every call of a behaviour reads the same second
Today == "2025-10-12 14:37:00"

\* how a write of the data file ends once open(path, 'w') has truncated the file:
\* completely, with an I/O error before all of the text is flushed, or with the
\* process killed before all of the text is flushed
SaveOutcomes == {"ok", "write_error", "crash"}

\* ------------------------------------------------------------------ files

NoDoc == [transactions |-> <<>>, balance |-> NotANumber, budget |-> NotANumber,
          last_updated |-> ""]

AbsentFile == [kind |-> "absent", doc |-> NoDoc]

JsonFile(doc) == [kind |-> "json", doc |-> doc]

\* lines 58-59 left out: a save that succeeds without touching the file
WriteFile_NotWritten(old, doc, outcome) ==
    IF outcome = "ok" THEN old ELSE [kind |-> "truncated", doc |-> NoDoc]

\* the file a write leaves behind: open(path, 'w') truncates, dump fills, close
\* completes; "truncated" is the empty file or a prefix of the text
WriteFile(old, doc, outcome) ==
    IF outcome = "ok" THEN JsonFile(doc) ELSE [kind |-> "truncated", doc |-> NoDoc]

Crashes(outcome) == outcome = "crash"

\* ------------------------------------------------------------------ PersonalWallet

Wallet(txs, bal, bud) == [transactions |-> txs, balance |-> bal, budget |-> bud]

Self == Wallet(transactions, balance, budget)

\* __init__ before load_data
NewWallet == Wallet(<<>>, Zero2, Zero2)

\* self.categories
categories ==
    [income |-> {"Salary", "Freelance", "Investment", "Bonus", "Other"},
     expense |-> {"Food", "Transport", "Entertainment", "Utilities", "Shopping",
                  "Healthcare", "Bills", "Other"}]

\* str.capitalize() on the transaction type
Capitalize(t) ==
    CASE t = "income" -> "Income" [] t = "expense" -> "Expense" [] OTHER -> "Transfer"

\* f"+${amount:.2f}" / f"-${amount:.2f}"
DisplayAmount(amount, trans_type) ==
    [sign |-> IF trans_type = "income" THEN "+" ELSE "-", num |-> Format2(amount)]

\* Decimal(trans['amount'].replace('$', '').replace('+', '').replace('-', ''))
AmountOf(t) == ParseDecimal([t.amount.num EXCEPT !.neg = FALSE])

\* 'id': len(self.transactions) + 1
NewId(txs) == Len(txs) + 1

\* the comparison of line 74 written as amount >= self.balance
Insufficient_OrEqual(amount, bal) == ~DecGt(bal, amount)

\* amount > self.balance
Insufficient(amount, bal) == DecGt(amount, bal)

\* description if description else "No description"
DescriptionOr(description) == IF description = "" THEN "No description" ELSE description

Outcome(w, ok, msg, id) == [self |-> w, ok |-> ok, msg |-> msg, id |-> id]

\* lines 71-78 written to apply the amount before the type is checked
add_transaction_ApplyThenCheck(w, text, trans_type, category, description, date) ==
    IF ~text.ok THEN Outcome(w, FALSE, "Error", 0)
    ELSE
    LET amount == ParseDecimal(text) IN
    IF amount.c <= 0 THEN Outcome(w, FALSE, "Amount must be greater than 0", 0)
    ELSE IF trans_type = "expense" /\ Insufficient(amount, w.balance)
        THEN Outcome(w, FALSE, "Insufficient balance for this expense", 0)
    ELSE
    LET bal == IF trans_type = "income" THEN DecAdd(w.balance, amount)
               ELSE DecSub(w.balance, amount)
        transaction ==
            [id |-> NewId(w.transactions),
             amount |-> DisplayAmount(amount, trans_type),
             raw_amount |-> ToFloat(amount),
             type |-> Capitalize(trans_type),
             category |-> category,
             description |-> DescriptionOr(description),
             date |-> date]
    IN IF trans_type \notin {"income", "expense"}
       THEN Outcome(Wallet(w.transactions, bal, w.budget), FALSE, "Invalid transaction type", 0)
       ELSE Outcome(Wallet(Append(w.transactions, transaction), bal, w.budget),
                    TRUE, "Transaction added successfully", transaction.id)

add_transaction(w, text, trans_type, category, description, date) ==
    IF ~text.ok THEN Outcome(w, FALSE, "Error", 0)
    ELSE
    LET amount == ParseDecimal(text) IN
    IF amount.c <= 0 THEN Outcome(w, FALSE, "Amount must be greater than 0", 0)
    ELSE IF trans_type = "expense" /\ Insufficient(amount, w.balance)
        THEN Outcome(w, FALSE, "Insufficient balance for this expense", 0)
    ELSE IF trans_type \notin {"income", "expense"}
        THEN Outcome(w, FALSE, "Invalid transaction type", 0)
    ELSE
    LET bal == IF trans_type = "income" THEN DecAdd(w.balance, amount)
               ELSE DecSub(w.balance, amount)
        transaction ==
            [id |-> NewId(w.transactions),
             amount |-> DisplayAmount(amount, trans_type),
             raw_amount |-> ToFloat(amount),
             type |-> Capitalize(trans_type),
             category |-> category,
             description |-> DescriptionOr(description),
             date |-> date]
    IN Outcome(Wallet(Append(w.transactions, transaction), bal, w.budget),
               TRUE, "Transaction added successfully", transaction.id)

\* next((t for t in self.transactions if t['id'] == trans_id), None)
FindFirst(txs, trans_id) ==
    LET hits == {i \in 1..Len(txs) : txs[i].id = trans_id}
    IN IF hits = {} THEN 0 ELSE CHOOSE i \in hits : \A j \in hits : i <= j

\* line 121 written to remove the one record found, self.transactions.remove(trans)
RemoveId_FirstOnly(txs, trans_id) ==
    LET hits == {i \in 1..Len(txs) : txs[i].id = trans_id}
    IN IF hits = {} THEN txs
       ELSE LET k == CHOOSE i \in hits : \A j \in hits : i <= j
            IN SubSeq(txs, 1, k - 1) \o SubSeq(txs, k + 1, Len(txs))

\* [t for t in self.transactions if t['id'] != trans_id]
RECURSIVE RemoveId(_, _)
RemoveId(txs, trans_id) ==
    IF txs = <<>> THEN <<>>
    ELSE LET rest == RemoveId(Tail(txs), trans_id)
         IN IF Head(txs).id # trans_id THEN <<Head(txs)>> \o rest ELSE rest

\* the balance after reversing transaction trans
Reverse(bal, trans) ==
    IF trans.type = "Income" THEN DecSub(bal, AmountOf(trans)) ELSE DecAdd(bal, AmountOf(trans))

delete_transaction(w, trans_id) ==
    LET k == FindFirst(w.transactions, trans_id) IN
    IF k = 0 THEN Outcome(w, FALSE, "Transaction not found", trans_id)
    ELSE Outcome(Wallet(RemoveId(w.transactions, trans_id),
                        Reverse(w.balance, w.transactions[k]), w.budget),
                 TRUE, "Transaction deleted successfully", trans_id)

set_budget(w, text) ==
    IF ~text.ok THEN Outcome(w, FALSE, "Error", 0)
    ELSE Outcome(Wallet(w.transactions, w.balance, ParseDecimal(text)),
                 TRUE, "Budget set successfully", 0)

\* trans_date.strftime("%Y-%m") of a date add_transaction wrote
MonthKey(date) == CASE date = Today -> "2025-10"

\* the place of a month key in the order sorted() puts the keys in
MonthOrd(month) == CASE month = "2025-10" -> 202510

\* sorted(monthly_data.keys())
RECURSIVE SortedMonths(_)
SortedMonths(keys) ==
    IF keys = {} THEN <<>>
    ELSE LET first == CHOOSE k \in keys : \A other \in keys : MonthOrd(k) <= MonthOrd(other)
         IN <<first>> \o SortedMonths(keys \ {first})

\* seq[-n:]
LastN(seq, n) ==
    IF n = 0 \/ n >= Len(seq) THEN seq ELSE SubSeq(seq, Len(seq) - n + 1, Len(seq))

\* the sum over the records of one month and one side, in 1/100
RECURSIVE MonthSum(_, _, _)
MonthSum(txs, month, income) ==
    IF txs = <<>> THEN 0
    ELSE LET t == Head(txs)
             mine == MonthKey(t.date) = month /\ ((t.type = "Income") = income)
         IN (IF mine THEN Scaled(AmountOf(t), 2) ELSE 0) + MonthSum(Tail(txs), month, income)

\* get_monthly_data: the items of the dict returned, in the order of its keys
get_monthly_data(w, months) ==
    LET keys == {MonthKey(w.transactions[i].date) : i \in 1..Len(w.transactions)}
        sorted_months == LastN(SortedMonths(keys), months)
    IN [i \in 1..Len(sorted_months) |->
            [month |-> sorted_months[i],
             income |-> MonthSum(w.transactions, sorted_months[i], TRUE),
             expense |-> MonthSum(w.transactions, sorted_months[i], FALSE)]]

\* the values of months the callers pass: the analytics tab's 6, and 0, 1
MonthsArgs == {0, 1, 6}

\* None, and every other argument that is false in "if search_type and ..."
None == ""

\* the place of a date in the order of datetime values
DateOrd(date) == CASE date = Today -> 1

\* t put into a list sorted by descending id, after the records with the same id
InsertById(t, sorted) ==
    LET before == {i \in 1..Len(sorted) : sorted[i].id >= t.id}
        k == Cardinality(before)
    IN SubSeq(sorted, 1, k) \o <<t>> \o SubSeq(sorted, k + 1, Len(sorted))

\* sorted(results, key=lambda x: x['id'], reverse=True): a stable sort
RECURSIVE SortedByIdReverse(_)
SortedByIdReverse(results) ==
    IF results = <<>> THEN <<>>
    ELSE InsertById(results[Len(results)],
                    SortedByIdReverse(SubSeq(results, 1, Len(results) - 1)))

get_transactions(w) == SortedByIdReverse(w.transactions)

\* lines 180-181 written without the test that the argument is set
search_transactions_UnsetIsAValue(w, search_type, category, date_from, date_to) ==
    LET by_type == IF search_type # "All"
                   THEN SelectSeq(w.transactions, LAMBDA t : t.type = search_type)
                   ELSE w.transactions
        by_category == IF category # None /\ category # "All"
                       THEN SelectSeq(by_type, LAMBDA t : t.category = category)
                       ELSE by_type
        from == IF date_from # None
                THEN SelectSeq(by_category, LAMBDA t : DateOrd(t.date) >= DateOrd(date_from))
                ELSE by_category
        to == IF date_to # None
              THEN SelectSeq(from, LAMBDA t : DateOrd(t.date) <= DateOrd(date_to))
              ELSE from
    IN SortedByIdReverse(to)

search_transactions(w, search_type, category, date_from, date_to) ==
    LET by_type == IF search_type # None /\ search_type # "All"
                   THEN SelectSeq(w.transactions, LAMBDA t : t.type = search_type)
                   ELSE w.transactions
        by_category == IF category # None /\ category # "All"
                       THEN SelectSeq(by_type, LAMBDA t : t.category = category)
                       ELSE by_type
        from == IF date_from # None
                THEN SelectSeq(by_category, LAMBDA t : DateOrd(t.date) >= DateOrd(date_from))
                ELSE by_category
        to == IF date_to # None
              THEN SelectSeq(from, LAMBDA t : DateOrd(t.date) <= DateOrd(date_to))
              ELSE from
    IN SortedByIdReverse(to)

\* the int 0 that sum() starts from
Zero0 == Dec(0, 0)

\* Decimal(t['amount'].replace('$', '').replace('+', '')): a '-' stays in the text
IncomeAmount(t) ==
    LET n == ParseDecimal(t.amount.num)
    IN IF t.amount.sign = "-" THEN Dec(-n.c, n.p) ELSE n

\* Decimal(t['amount'].replace('$', '').replace('-', ''))
ExpenseAmount(t) == ParseDecimal([t.amount.num EXCEPT !.neg = FALSE])

\* [t for t in self.transactions if t['type'] == type_]
OfType(txs, type_) == SelectSeq(txs, LAMBDA t : t.type = type_)

\* the generator of the amounts of the records
IncomeAmounts(txs) == [i \in 1..Len(txs) |-> IncomeAmount(txs[i])]

ExpenseAmounts(txs) == [i \in 1..Len(txs) |-> ExpenseAmount(txs[i])]

\* sum(...) of Decimals
RECURSIVE SumOf(_)
SumOf(amounts) ==
    IF amounts = <<>> THEN Zero0
    ELSE DecAdd(SumOf(SubSeq(amounts, 1, Len(amounts) - 1)), amounts[Len(amounts)])

\* max(..., default=Decimal("0.00")): the first of the largest
RECURSIVE MaxOf(_)
MaxOf(amounts) ==
    IF amounts = <<>> THEN Zero2
    ELSE IF Len(amounts) = 1 THEN amounts[1]
    ELSE LET rest == MaxOf(Tail(amounts))
         IN IF DecGt(rest, amounts[1]) THEN rest ELSE amounts[1]

\* the quotient a / b of two Decimals, kept as the pair (a, b); Python rounds it
\* to 28 significant digits
Quotient(a, b) == [num |-> a, den |-> b]

\* line 135 written to divide by the number of all records
get_statistics_AverageOverAll(w) ==
    LET total_income == SumOf(IncomeAmounts(OfType(w.transactions, "Income")))
        expense_transactions == OfType(w.transactions, "Expense")
        total_expenses == SumOf(ExpenseAmounts(expense_transactions))
    IN [total_income |-> total_income,
        total_expenses |-> total_expenses,
        net_savings |-> DecSub(total_income, total_expenses),
        transaction_count |-> Len(w.transactions),
        avg_expense |-> IF expense_transactions # <<>>
                        THEN Quotient(total_expenses, Dec(Len(w.transactions), 0))
                        ELSE Quotient(Zero2, Dec(1, 0)),
        largest_expense |-> MaxOf(ExpenseAmounts(expense_transactions))]

get_statistics(w) ==
    LET total_income == SumOf(IncomeAmounts(OfType(w.transactions, "Income")))
        expense_transactions == OfType(w.transactions, "Expense")
        total_expenses == SumOf(ExpenseAmounts(expense_transactions))
    IN [total_income |-> total_income,
        total_expenses |-> total_expenses,
        net_savings |-> DecSub(total_income, total_expenses),
        transaction_count |-> Len(w.transactions),
        avg_expense |-> IF expense_transactions # <<>>
                        THEN Quotient(total_expenses, Dec(Len(expense_transactions), 0))
                        ELSE Quotient(Zero2, Dec(1, 0)),
        largest_expense |-> MaxOf(ExpenseAmounts(expense_transactions))]

\* get_expense_by_category: category -> the sum of its expenses, in 1/100
get_expense_by_category(w) ==
    LET expenses == OfType(w.transactions, "Expense")
        cats == {expenses[i].category : i \in 1..Len(expenses)}
    IN [cat \in cats |->
            Scaled(SumOf(ExpenseAmounts(SelectSeq(expenses, LAMBDA t : t.category = cat))), 2)]

\* get_budget_status at the time now; none is the return value None
get_budget_status(w, now) ==
    IF w.budget.c = 0
    THEN [none |-> TRUE, budget |-> w.budget, spent |-> Zero0, remaining |-> Zero0,
          percentage |-> Quotient(Zero0, Dec(1, 0))]
    ELSE LET month_expenses ==
                SumOf(ExpenseAmounts(
                    SelectSeq(w.transactions,
                              LAMBDA t : t.type = "Expense" /\ MonthKey(t.date) = MonthKey(now))))
         IN [none |-> FALSE,
             budget |-> w.budget,
             spent |-> month_expenses,
             remaining |-> DecSub(w.budget, month_expenses),
             percentage |-> IF w.budget.c > 0
                            THEN Quotient(Dec(month_expenses.c * 100, month_expenses.p), w.budget)
                            ELSE Quotient(Zero0, Dec(1, 0))]

\* the read-only calls of PersonalWallet
Views == {"get_transactions", "get_statistics", "get_expense_by_category",
          "get_monthly_data", "search_transactions", "get_budget_status"}

\* line 105 written as self.transactions.sort(...): the list is sorted in place
view_SortsInPlace(w, name) ==
    [self |-> IF name = "get_transactions"
              THEN Wallet(SortedByIdReverse(w.transactions), w.balance, w.budget)
              ELSE w,
     shown |-> CASE name = "get_transactions" -> Len(get_transactions(w))
                 [] name = "get_statistics" -> get_statistics(w).transaction_count
                 [] name = "get_expense_by_category" -> Cardinality(DOMAIN get_expense_by_category(w))
                 [] name = "get_monthly_data" -> Len(get_monthly_data(w, 6))
                 [] name = "search_transactions" -> Len(search_transactions(w, None, None, None, None))
                 [] name = "get_budget_status" -> IF get_budget_status(w, Today).none THEN 0 ELSE 1]

\* a read-only call: the wallet it leaves and the number of entries it returns;
\* none of the calls assigns to a field of self, and sorted() and the list
\* comprehensions build new lists
view(w, name) ==
    [self |-> w,
     shown |-> CASE name = "get_transactions" -> Len(get_transactions(w))
                 [] name = "get_statistics" -> get_statistics(w).transaction_count
                 [] name = "get_expense_by_category" -> Cardinality(DOMAIN get_expense_by_category(w))
                 [] name = "get_monthly_data" -> Len(get_monthly_data(w, 6))
                 [] name = "search_transactions" -> Len(search_transactions(w, None, None, None, None))
                 [] name = "get_budget_status" -> IF get_budget_status(w, Today).none THEN 0 ELSE 1]

\* line 54 written with the two-digit format of get_balance, f"{self.balance:.2f}"
WalletDoc_RoundedBalance(w, date) ==
    [transactions |-> w.transactions,
     balance |-> Format2(w.balance),
     budget |-> DecimalStr(w.budget),
     last_updated |-> date]

\* the JSON document save_data dumps
WalletDoc(w, date) ==
    [transactions |-> w.transactions,
     balance |-> DecimalStr(w.balance),
     budget |-> DecimalStr(w.budget),
     last_updated |-> date]

\* load_data on a wallet fresh from __init__
load_data(w, file) ==
    IF file.kind = "absent" THEN Outcome(Wallet(<<>>, Zero2, Zero2), TRUE, "", 0)
    ELSE IF file.kind # "json" THEN Outcome(w, FALSE, "Failed to load data", 0)
    ELSE IF ~file.doc.balance.ok
        THEN Outcome(Wallet(file.doc.transactions, w.balance, w.budget),
                     FALSE, "Failed to load data", 0)
    ELSE IF ~file.doc.budget.ok
        THEN Outcome(Wallet(file.doc.transactions, ParseDecimal(file.doc.balance), w.budget),
                     FALSE, "Failed to load data", 0)
    ELSE Outcome(Wallet(file.doc.transactions,
                        ParseDecimal(file.doc.balance),
                        ParseDecimal(file.doc.budget)), TRUE, "", 0)

\* ------------------------------------------------------------------ PersonalWallet: actions

\* what is recorded of a call: op, the result (ok, msg), the id it was given or
\* assigned, the transaction type, whether the file was written completely,
\* whether it repeats the delete before it, and the wallet before an accepted add
Call(op, r, type, saved, rep, pre) ==
    [op |-> op, ok |-> r.ok, msg |-> r.msg, id |-> r.id, type |-> type,
     saved |-> saved, rep |-> rep, pre |-> pre]

RECURSIVE MaxIdOf(_)
MaxIdOf(txs) == IF txs = <<>> THEN 0 ELSE Max(Head(txs).id, MaxIdOf(Tail(txs)))

InBounds == running /\ Abs(Mills(balance)) <= MaxBalance

\* save_data written to put the wallet back as it was when the write fails
Commit_UndoOnWriteError(r, outcome, call) ==
    /\ data_file' = WriteFile(data_file, WalletDoc(r.self, Today), outcome)
    /\ IF Crashes(outcome)
       THEN /\ running' = FALSE
            /\ transactions' = <<>>
            /\ balance' = Zero2
            /\ budget' = Zero2
            /\ last' = [call EXCEPT !.op = "crash", !.saved = FALSE]
       ELSE /\ running' = TRUE
            /\ transactions' = IF outcome = "ok" THEN r.self.transactions ELSE transactions
            /\ balance' = IF outcome = "ok" THEN r.self.balance ELSE balance
            /\ budget' = IF outcome = "ok" THEN r.self.budget ELSE budget
            /\ last' = [call EXCEPT !.saved = (outcome = "ok")]

\* a handler that changed the wallet to r.self and then called save_data
Commit(r, outcome, call) ==
    /\ data_file' = WriteFile(data_file, WalletDoc(r.self, Today), outcome)
    /\ IF Crashes(outcome)
       THEN /\ running' = FALSE
            /\ transactions' = <<>>
            /\ balance' = Zero2
            /\ budget' = Zero2
            /\ last' = [call EXCEPT !.op = "crash", !.saved = FALSE]
       ELSE /\ running' = TRUE
            /\ transactions' = r.self.transactions
            /\ balance' = r.self.balance
            /\ budget' = r.self.budget
            /\ last' = [call EXCEPT !.saved = (outcome = "ok")]

\* a handler that returned failure: the wallet is whatever the call left in r.self,
\* and save_data was not reached
Reject(r, call) ==
    /\ last' = call
    /\ transactions' = r.self.transactions
    /\ balance' = r.self.balance
    /\ budget' = r.self.budget
    /\ UNCHANGED <<data_file, running>>

AddTransaction(text, trans_type, form) ==
    /\ InBounds
    /\ Len(transactions) < MaxTx
    /\ LET r == add_transaction(Self, text, trans_type, form.category, form.description, Today)
           call == Call("add", r, IF r.ok THEN trans_type ELSE "", FALSE, FALSE,
                        IF r.ok THEN Self ELSE NewWallet)
       IN /\ IF r.ok THEN \E outcome \in SaveOutcomes : Commit(r, outcome, call)
             ELSE Reject(r, call)
          /\ maxId' = IF r.ok THEN Max(maxId, r.id) ELSE maxId
    /\ UNCHANGED <<basicVars, panelVars>>

DeleteTransaction(trans_id) ==
    /\ InBounds
    /\ LET r == delete_transaction(Self, trans_id)
           call == Call("delete", r, "", FALSE,
                        last.op = "delete" /\ last.id = trans_id /\ last.ok, NewWallet)
       IN IF r.ok THEN \E outcome \in SaveOutcomes : Commit(r, outcome, call)
          ELSE Reject(r, call)
    /\ UNCHANGED maxId
    /\ UNCHANGED <<basicVars, panelVars>>

SetBudget(text) ==
    /\ InBounds
    /\ LET r == set_budget(Self, text)
           call == Call("budget", r, "", FALSE, FALSE, NewWallet)
       IN IF r.ok THEN \E outcome \in SaveOutcomes : Commit(r, outcome, call)
          ELSE Reject(r, call)
    /\ UNCHANGED maxId
    /\ UNCHANGED <<basicVars, panelVars>>

\* the program is started (again): PersonalWallet() on the file as it is
Start ==
    /\ LET r == load_data(NewWallet, data_file)
       IN /\ transactions' = r.self.transactions
          /\ balance' = r.self.balance
          /\ budget' = r.self.budget
          /\ maxId' = MaxIdOf(r.self.transactions)
          /\ last' = Call("start", r, data_file.kind, running /\ last.saved, FALSE, NewWallet)
    /\ running' = TRUE
    /\ UNCHANGED data_file
    /\ UNCHANGED <<basicVars, panelVars>>

\* the fields of the data file load_data converts with Decimal(str(...))
DecimalFields == {"balance", "budget"}

\* the data file is edited outside the program: the text of one converted field
\* becomes text that is not a decimal; the file stays well-formed JSON
EditFile(field) ==
    /\ data_file.kind = "json"
    /\ data_file.doc.balance.ok
    /\ data_file.doc.budget.ok
    /\ data_file' = JsonFile([data_file.doc EXCEPT ![field] = NotANumber])
    /\ last' = [last EXCEPT !.saved = FALSE]
    /\ UNCHANGED <<transactions, balance, budget, running, maxId>>
    /\ UNCHANGED <<basicVars, panelVars>>

\* one of the read-only calls, as the tabs of the GUI make them
View(name) ==
    /\ InBounds
    /\ LET r == view(Self, name)
       IN /\ transactions' = r.self.transactions
          /\ balance' = r.self.balance
          /\ budget' = r.self.budget
          /\ r.shown >= 0
          /\ last' = [op |-> "view", ok |-> TRUE, msg |-> "", id |-> 0, type |-> "",
                      saved |-> FALSE, rep |-> FALSE, pre |-> NewWallet]
    /\ UNCHANGED <<data_file, running, maxId>>
    /\ UNCHANGED <<basicVars, panelVars>>

\* what the user types into the budget entry when negative budgets are tried too
SignedBudgetTexts == BudgetTexts \cup { Num(TRUE, 1, <<>>) }     \* and "-1"

Ids == 1..(MaxTx + 1)

WalletInit ==
    /\ data_file = AbsentFile
    /\ LET r == load_data(NewWallet, AbsentFile)
       IN /\ transactions = r.self.transactions
          /\ balance = r.self.balance
          /\ budget = r.self.budget
          /\ last = Call("start", r, "absent", FALSE, FALSE, NewWallet)
    /\ running = TRUE
    /\ maxId = 0

Next ==
    \/ \E text \in AmountTexts, trans_type \in TransTypes, form \in Forms :
          AddTransaction(text, trans_type, form)
    \/ \E trans_id \in Ids : DeleteTransaction(trans_id)
    \/ \E text \in BudgetTexts : SetBudget(text)
    \/ Start

\* ------------------------------------------------------------------ BasicWalletGUI

\* self.balance = 3629.50, in 1/100
StartingBalance == 362950

\* what the user types into the amount entry of BasicWalletGUI: "abc", "0.5", "-2";
\* the numbers are binary fractions, on which float arithmetic is exact
BasicAmountTexts == { NotANumber, Num(FALSE, 0, <<5>>), Num(TRUE, 2, <<>>) }

BasicTypes == {"Income", "Expense"}

Basic(bal, txs) == [balance |-> bal, transactions |-> txs]

BasicSelf == Basic(basic_balance, basic_transactions)

\* float(text), in 1/100
ParseFloat(text) == Scaled(ParseDecimal(text), 2)

basic_add_transaction(w, text, type_, category, description, date) ==
    IF ~text.ok THEN [self |-> w, ok |-> FALSE]
    ELSE
    LET amount == ParseFloat(text)
        transaction ==
            [amount |-> amount, type |-> type_, category |-> category,
             description |-> DescriptionOr(description), date |-> date]
    IN [self |-> Basic(IF type_ = "Income" THEN w.balance + amount ELSE w.balance - amount,
                       Append(w.transactions, transaction)),
        ok |-> TRUE]

\* BasicWalletGUI.load_data on a wallet fresh from the first lines of __init__
basic_load_data(w, file) ==
    IF file.kind = "json" THEN [self |-> Basic(file.doc.balance, file.doc.transactions), ok |-> TRUE]
    ELSE [self |-> w, ok |-> file.kind = "absent"]

\* the first lines of __init__
NewBasic == Basic(StartingBalance, <<>>)

BasicCall(op, ok, saved, file) == [op |-> op, ok |-> ok, saved |-> saved, file |-> file]

\* refresh_history: the listbox is redrawn and save_data is called
BasicRefresh(w, outcome, call) ==
    /\ basic_file' = WriteFile(basic_file, w, outcome)
    /\ IF Crashes(outcome)
       THEN /\ basic_running' = FALSE
            /\ basic_balance' = 0
            /\ basic_transactions' = <<>>
            /\ basic_last' = [call EXCEPT !.op = "crash", !.saved = FALSE]
       ELSE /\ basic_running' = TRUE
            /\ basic_balance' = w.balance
            /\ basic_transactions' = w.transactions
            /\ basic_last' = [call EXCEPT !.saved = (outcome = "ok")]

BasicAddTransaction(text, type_, form) ==
    /\ basic_running
    /\ Len(basic_transactions) < MaxBasicTx
    /\ LET r == basic_add_transaction(BasicSelf, text, type_, form.category,
                                      form.description, Today)
       IN IF r.ok
          THEN \E outcome \in SaveOutcomes :
                  BasicRefresh(r.self, outcome, BasicCall("add", TRUE, FALSE, basic_file.kind))
          ELSE /\ basic_last' = BasicCall("add", FALSE, FALSE, basic_file.kind)
               /\ UNCHANGED <<basic_balance, basic_transactions, basic_file, basic_running>>
    /\ UNCHANGED <<walletVars, panelVars>>

\* the program is started (again): BasicWalletGUI(root) on the file as it is;
\* __init__ ends with refresh_history, which saves
BasicStart ==
    /\ LET r == basic_load_data(NewBasic, basic_file)
       IN \E outcome \in SaveOutcomes :
             BasicRefresh(r.self, outcome, BasicCall("start", r.ok, FALSE, basic_file.kind))
    /\ UNCHANGED <<walletVars, panelVars>>

BasicInit ==
    /\ basic_balance = NewBasic.balance
    /\ basic_transactions = NewBasic.transactions
    /\ basic_file = WriteFile(AbsentFile, NewBasic, "ok")
    /\ basic_running = TRUE
    /\ basic_last = BasicCall("start", TRUE, TRUE, "absent")

NextBasic ==
    \/ \E text \in BasicAmountTexts, type_ \in BasicTypes, form \in Forms :
          BasicAddTransaction(text, type_, form)
    \/ BasicStart

\* ------------------------------------------------------------------ TaskPanel

CATEGORIES == <<"Home", "Gym", "College">>

Range(f) == {f[i] : i \in DOMAIN f}

\* the characters of the strings that take part in a search, lower-cased by Lower
Chars(s) ==
    CASE s = "" -> <<>>
      [] s = "run" -> <<"r", "u", "n">>
      [] s = "Home" -> <<"H", "o", "m", "e">>
      [] s = "Gym" -> <<"G", "y", "m">>
      [] s = "College" -> <<"C", "o", "l", "l", "e", "g", "e">>
      [] s = "Low" -> <<"L", "o", "w">>
      [] s = "Medium" -> <<"M", "e", "d", "i", "u", "m">>
      [] s = "High" -> <<"H", "i", "g", "h">>
      [] s = "Urgent" -> <<"U", "r", "g", "e", "n", "t">>
      [] s = "low" -> <<"l", "o", "w">>
      [] s = "2025-10-12 14:37" -> <<"2", "0", "2", "5", "-", "1", "0", "-", "1", "2", " ",
                                     "1", "4", ":", "3", "7">>

LowerChar(c) ==
    CASE c = "C" -> "c" [] c = "G" -> "g" [] c = "H" -> "h" [] c = "L" -> "l"
      [] c = "M" -> "m" [] c = "U" -> "u" [] OTHER -> c

\* str.lower()
Lower(cs) == [i \in 1..Len(cs) |-> LowerChar(cs[i])]

\* the strings that take part in a search, and each of them lower-cased
Strings ==
    {"", "run", "Home", "Gym", "College", "Low", "Medium", "High", "Urgent", "low",
     "2025-10-12 14:37", " "}

LowerOf == [s \in Strings |-> IF s = " " THEN <<" ">> ELSE Lower(Chars(s))]

\* q in hay
Contains(hay, q) ==
    \E i \in 1..(Len(hay) - Len(q) + 1) : \A j \in 1..Len(q) : hay[i + j - 1] = q[j]

\* datetime.now().strftime("%Y-%m-%d %H:%M")
Stamp == "2025-10-12 14:37"

\* what the user has in the entry, the category button and the priority box
TaskTexts == {"", "run"}

CategoryChoices == {"Category", "Home", "Gym"}

PriorityChoices == {"Low"}

\* what the user has in the search entry and the two filter boxes
SearchTexts == {"", "low"}

StatusChoices == {"All", "Completed"}

CategoryFilters == {"All", "Home"}

Item(id, cat, pr, text, time, done) ==
    [id |-> id, cat |-> cat, priority |-> pr, task |-> text, time |-> time, done |-> done]

Entry(it) == [task |-> it.task, timestamp |-> it.time, done |-> it.done, priority |-> it.priority]

\* the task dict _rebuild_tree dumps into metas
Meta(it) ==
    [id |-> it.id, category |-> it.cat, priority |-> it.priority, text |-> it.task,
     created |-> it.time, done |-> it.done]

\* _passes_filters
passes_filters(it, q, status_filter, cat_filter) ==
    LET status_label == IF it.done THEN "Completed" ELSE "Pending"
        hay == LowerOf[it.task] \o LowerOf[" "] \o LowerOf[it.cat] \o LowerOf[" "]
                   \o LowerOf[it.priority] \o LowerOf[" "] \o LowerOf[it.time]
    IN IF cat_filter # "All" /\ it.cat # cat_filter THEN FALSE
       ELSE IF status_filter # "All" /\ status_filter # status_label THEN FALSE
       ELSE IF q # <<>> /\ ~Contains(hay, q) THEN FALSE
       ELSE TRUE

RECURSIVE Shown(_, _, _, _)
Shown(its, q, status_filter, cat_filter) ==
    IF its = <<>> THEN <<>>
    ELSE LET rest == Shown(Tail(its), q, status_filter, cat_filter)
         IN IF passes_filters(Head(its), q, status_filter, cat_filter)
            THEN <<Head(its)>> \o rest ELSE rest

\* _rebuild_tree: the rows and the metas for items under the filters in the widgets
rebuild_tree(its, search, status_filter, cat_filter) ==
    LET shown == Shown(its, LowerOf[search], status_filter, cat_filter)
    IN [tree |-> [i \in 1..Len(shown) |-> shown[i].id],
        metas |-> [iid \in {shown[i].id : i \in 1..Len(shown)} |->
                      Meta(CHOOSE it \in Range(shown) : it.id = iid)]]

\* update_stats: the numbers put into the status bar
update_stats(ms) ==
    LET total == Cardinality(DOMAIN ms)
        completed == Cardinality({iid \in DOMAIN ms : ms[iid].done})
    IN [completed |-> completed, pending |-> total - completed, total |-> total]

\* line 289 written as pending = total
show_stats_PendingIsTotal(ms) ==
    LET total == Cardinality(DOMAIN ms)
        completed == Cardinality({iid \in DOMAIN ms : ms[iid].done})
        cats == {ms[iid].category : iid \in DOMAIN ms}
    IN [completed |-> completed, pending |-> total, total |-> total,
        category_stats |->
            [cat \in cats |-> Cardinality({iid \in DOMAIN ms : ms[iid].category = cat})]]

\* show_stats: the numbers put into the dialog
show_stats(ms) ==
    LET total == Cardinality(DOMAIN ms)
        completed == Cardinality({iid \in DOMAIN ms : ms[iid].done})
        cats == {ms[iid].category : iid \in DOMAIN ms}
    IN [completed |-> completed, pending |-> total - completed, total |-> total,
        category_stats |->
            [cat \in cats |-> Cardinality({iid \in DOMAIN ms : ms[iid].category = cat})]]

\* save_tasks: the list dumped into the file
RECURSIVE TasksDoc(_, _)
TasksDoc(rows, ms) ==
    IF rows = <<>> THEN <<>>
    ELSE IF Head(rows) \in DOMAIN ms THEN <<ms[Head(rows)]>> \o TasksDoc(Tail(rows), ms)
    ELSE TasksDoc(Tail(rows), ms)

AbsentTasksFile == [kind |-> "absent", doc |-> <<>>]

\* the file save_tasks leaves behind
WriteTasksFile(old, doc, outcome) ==
    IF outcome = "ok" THEN [kind |-> "json", doc |-> doc]
    ELSE [kind |-> "truncated", doc |-> <<>>]

Panel(its, nid, td) == [items |-> its, next_id |-> nid, tasks_data |-> td]

PanelSelf == Panel(items, next_id, tasks_data)

\* __init__ before load_tasks
NewPanel == Panel(<<>>, 1, [c \in Range(CATEGORIES) |-> <<>>])

\* priority_var.get().strip() or "Medium"
PriorityOr(pr) == IF pr = "" THEN "Medium" ELSE pr

\* add_task up to the rebuild; the texts offered carry no surrounding blanks
add_task(w, text, cat, pr, stamp) ==
    IF text = "" \/ cat = "Category" THEN [self |-> w, ok |-> FALSE]
    ELSE LET item == Item(w.next_id, cat, PriorityOr(pr), text, stamp, FALSE)
         IN [self |-> Panel(Append(w.items, item), w.next_id + 1,
                            [w.tasks_data EXCEPT ![cat] = Append(@, Entry(item))]),
             ok |-> TRUE]

RECURSIVE WithoutIds(_, _)
WithoutIds(its, ids) ==
    IF its = <<>> THEN <<>>
    ELSE IF Head(its).id \in ids THEN WithoutIds(Tail(its), ids)
    ELSE <<Head(its)>> \o WithoutIds(Tail(its), ids)

RECURSIVE WithoutTask(_, _)
WithoutTask(entries, text) ==
    IF entries = <<>> THEN <<>>
    ELSE IF Head(entries).task = text THEN WithoutTask(Tail(entries), text)
    ELSE <<Head(entries)>> \o WithoutTask(Tail(entries), text)

\* for it in removed: self.tasks_data[it["cat"]] = [d for d in ... if d["task"] != it["task"]]
RECURSIVE ForgetRemoved(_, _)
ForgetRemoved(td, removed) ==
    IF removed = <<>> THEN td
    ELSE LET it == Head(removed)
         IN ForgetRemoved([td EXCEPT ![it.cat] = WithoutTask(@, it.task)], Tail(removed))

RECURSIVE OnlyIds(_, _)
OnlyIds(its, ids) ==
    IF its = <<>> THEN <<>>
    ELSE IF Head(its).id \in ids THEN <<Head(its)>> \o OnlyIds(Tail(its), ids)
    ELSE OnlyIds(Tail(its), ids)

\* delete_selected up to the rebuild, for a selection sel of rows
delete_selected(w, sel) ==
    IF sel = {} THEN [self |-> w, ok |-> FALSE]
    ELSE [self |-> Panel(WithoutIds(w.items, sel), w.next_id,
                         ForgetRemoved(w.tasks_data, OnlyIds(w.items, sel))),
          ok |-> TRUE]

\* clear_all written to start the ids again, self._next_id = 1
clear_all_RestartsIds(w) == Panel(<<>>, 1, [c \in DOMAIN w.tasks_data |-> <<>>])

\* clear_all up to the rebuild, once the user confirmed
clear_all(w) == Panel(<<>>, w.next_id, [c \in DOMAIN w.tasks_data |-> <<>>])

\* the first entry of entries whose task is text gets done
MarkEntry(entries, text, done) ==
    LET hits == {i \in 1..Len(entries) : entries[i].task = text}
    IN IF hits = {} THEN entries
       ELSE LET k == CHOOSE i \in hits : \A j \in hits : i <= j
            IN [entries EXCEPT ![k].done = done]

\* line 427 written as it["done"] = True
mark_one_SetsDone(w, sel) ==
    IF Cardinality(sel) # 1 THEN [self |-> w, ok |-> FALSE]
    ELSE LET iid == CHOOSE i \in sel : TRUE
             hits == {k \in 1..Len(w.items) : w.items[k].id = iid}
         IN IF hits = {} THEN [self |-> w, ok |-> TRUE]
            ELSE LET k == CHOOSE i \in hits : \A j \in hits : i <= j
                     it == [w.items[k] EXCEPT !.done = TRUE]
                 IN [self |-> Panel([w.items EXCEPT ![k] = it], w.next_id,
                                    [w.tasks_data EXCEPT ![it.cat] = MarkEntry(@, it.task, it.done)]),
                     ok |-> TRUE]

\* mark_one up to the rebuild, for a selection sel of rows
mark_one(w, sel) ==
    IF Cardinality(sel) # 1 THEN [self |-> w, ok |-> FALSE]
    ELSE LET iid == CHOOSE i \in sel : TRUE
             hits == {k \in 1..Len(w.items) : w.items[k].id = iid}
         IN IF hits = {} THEN [self |-> w, ok |-> TRUE]
            ELSE LET k == CHOOSE i \in hits : \A j \in hits : i <= j
                     it == [w.items[k] EXCEPT !.done = ~@]
                 IN [self |-> Panel([w.items EXCEPT ![k] = it], w.next_id,
                                    [w.tasks_data EXCEPT ![it.cat] = MarkEntry(@, it.task, it.done)]),
                     ok |-> TRUE]

\* the loop of load_tasks over the tasks of the file
RECURSIVE LoadInto(_, _)
LoadInto(w, tasks) ==
    IF tasks = <<>> THEN w
    ELSE LET t == Head(tasks)
             item == Item(w.next_id, t.category, t.priority, t.text, t.created, t.done)
         IN LoadInto(Panel(Append(w.items, item), w.next_id + 1,
                           [w.tasks_data EXCEPT ![item.cat] = Append(@, Entry(item))]),
                     Tail(tasks))

\* load_tasks on a panel fresh from __init__, up to the rebuild
load_tasks(w, file) ==
    IF file.kind = "absent" THEN [self |-> w, ok |-> TRUE]
    ELSE IF file.kind = "json"
        THEN [self |-> LoadInto(Panel(<<>>, 1, w.tasks_data), file.doc), ok |-> TRUE]
    ELSE [self |-> w, ok |-> FALSE]

\* ------------------------------------------------------------------ TaskPanel: actions

PanelCall(op, ok, saved) == [op |-> op, ok |-> ok, saved |-> saved]

\* the widgets and the store after a handler: _rebuild_tree under the given filters
PanelShow(w, search, status_filter, cat_filter) ==
    LET rb == rebuild_tree(w.items, search, status_filter, cat_filter)
    IN /\ items' = w.items
       /\ next_id' = w.next_id
       /\ tasks_data' = w.tasks_data
       /\ tree' = rb.tree
       /\ metas' = rb.metas
       /\ stats_label' = update_stats(rb.metas)
       /\ search_var' = search
       /\ filter_var' = status_filter
       /\ category_filter_var' = cat_filter

\* a handler that changed the store to w, then _rebuild_tree and save_tasks
PanelCommit(w, outcome, op) ==
    LET rb == rebuild_tree(w.items, search_var, filter_var, category_filter_var)
    IN /\ tasks_file' = WriteTasksFile(tasks_file, TasksDoc(rb.tree, rb.metas), outcome)
       /\ IF Crashes(outcome)
          THEN /\ panel_running' = FALSE
               /\ PanelShow(NewPanel, "", "All", "All")
               /\ panel_last' = PanelCall("crash", FALSE, FALSE)
          ELSE /\ panel_running' = TRUE
               /\ PanelShow(w, search_var, filter_var, category_filter_var)
               /\ panel_last' = PanelCall(op, TRUE, outcome = "ok")

\* a handler that returned after its message box
PanelReject(op) == UNCHANGED panelVars

AddTask(text, cat, pr) ==
    /\ panel_running
    /\ Len(items) < MaxItems
    /\ next_id <= MaxNextId
    /\ LET r == add_task(PanelSelf, text, cat, pr, Stamp)
       IN IF r.ok THEN \E outcome \in SaveOutcomes : PanelCommit(r.self, outcome, "add_task")
          ELSE PanelReject("add_task")
    /\ UNCHANGED <<walletVars, basicVars>>

DeleteSelected(sel) ==
    /\ panel_running
    /\ LET r == delete_selected(PanelSelf, sel)
       IN IF r.ok THEN \E outcome \in SaveOutcomes : PanelCommit(r.self, outcome, "delete_selected")
          ELSE PanelReject("delete_selected")
    /\ UNCHANGED <<walletVars, basicVars>>

\* clear_all, answered yes; answered no, or with no items, it returns at once
ClearAll ==
    /\ panel_running
    /\ items # <<>>
    /\ \E outcome \in SaveOutcomes : PanelCommit(clear_all(PanelSelf), outcome, "clear_all")
    /\ UNCHANGED <<walletVars, basicVars>>

MarkOne(sel) ==
    /\ panel_running
    /\ LET r == mark_one(PanelSelf, sel)
       IN IF r.ok THEN \E outcome \in SaveOutcomes : PanelCommit(r.self, outcome, "mark_one")
          ELSE PanelReject("mark_one")
    /\ UNCHANGED <<walletVars, basicVars>>

\* the 'Save now' button: save_tasks on the rows as they are
SaveNow ==
    /\ panel_running
    /\ \E outcome \in SaveOutcomes :
          /\ tasks_file' = WriteTasksFile(tasks_file, TasksDoc(tree, metas), outcome)
          /\ IF Crashes(outcome)
             THEN /\ panel_running' = FALSE
                  /\ PanelShow(NewPanel, "", "All", "All")
                  /\ panel_last' = PanelCall("crash", FALSE, FALSE)
             ELSE /\ panel_last' = PanelCall("save_tasks", TRUE, outcome = "ok")
                  /\ UNCHANGED <<items, next_id, tasks_data, tree, metas, stats_label, search_var,
                                 filter_var, category_filter_var, panel_running>>
    /\ UNCHANGED <<walletVars, basicVars>>

\* filter_tasks after the search entry or a filter box changed
FilterTasks(search, status_filter, cat_filter) ==
    /\ panel_running
    /\ \/ status_filter = filter_var /\ cat_filter = category_filter_var
       \/ search = search_var /\ cat_filter = category_filter_var
       \/ search = search_var /\ status_filter = filter_var
    /\ PanelShow(PanelSelf, search, status_filter, cat_filter)
    /\ UNCHANGED <<tasks_file, panel_running, panel_last>>
    /\ UNCHANGED <<walletVars, basicVars>>

\* the program is started (again): TaskPanel() on the file as it is
PanelStart ==
    /\ LET r == load_tasks(NewPanel, tasks_file)
       IN /\ PanelShow(r.self, "", "All", "All")
          /\ panel_last' = PanelCall("start", r.ok, FALSE)
    /\ panel_running' = TRUE
    /\ UNCHANGED tasks_file
    /\ UNCHANGED <<walletVars, basicVars>>

PanelInit ==
    /\ tasks_file = AbsentTasksFile
    /\ LET r == load_tasks(NewPanel, AbsentTasksFile)
           rb == rebuild_tree(r.self.items, "", "All", "All")
       IN /\ items = r.self.items
          /\ next_id = r.self.next_id
          /\ tasks_data = r.self.tasks_data
          /\ tree = rb.tree
          /\ metas = rb.metas
          /\ stats_label = update_stats(rb.metas)
          /\ panel_last = PanelCall("start", r.ok, FALSE)
    /\ search_var = ""
    /\ filter_var = "All"
    /\ category_filter_var = "All"
    /\ panel_running = TRUE

NextPanel ==
    \/ \E text \in TaskTexts, cat \in CategoryChoices, pr \in PriorityChoices :
          AddTask(text, cat, pr)
    \/ \E sel \in SUBSET Range(tree) : DeleteSelected(sel)
    \/ ClearAll
    \/ \E sel \in SUBSET Range(tree) : MarkOne(sel)
    \/ SaveNow
    \/ \E search \in SearchTexts, status_filter \in StatusChoices,
           cat_filter \in CategoryFilters : FilterTasks(search, status_filter, cat_filter)
    \/ PanelStart

\* ------------------------------------------------------------------ specifications

Init == WalletInit /\ BasicInit /\ PanelInit

\* PersonalWallet runs
Spec == Init /\ [][Next]_vars

\* PersonalWallet runs, and its data file can be edited by hand between calls
NextEdited ==
    \/ \E text \in AmountTexts, trans_type \in TransTypes, form \in Forms :
          AddTransaction(text, trans_type, form)
    \/ \E trans_id \in Ids : DeleteTransaction(trans_id)
    \/ \E text \in BudgetTexts : SetBudget(text)
    \/ Start
    \/ \E field \in DecimalFields : EditFile(field)

SpecEdited == Init /\ [][NextEdited]_vars

\* PersonalWallet runs with its read-only calls made between the others
NextViews ==
    \/ \E text \in AmountTexts, trans_type \in TransTypes, form \in Forms :
          AddTransaction(text, trans_type, form)
    \/ \E trans_id \in Ids : DeleteTransaction(trans_id)
    \/ \E text \in BudgetTexts : SetBudget(text)
    \/ Start
    \/ \E name \in Views : View(name)

SpecViews == Init /\ [][NextViews]_vars

\* PersonalWallet runs, and negative budgets are typed too
NextSignedBudget ==
    \/ \E text \in AmountTexts, trans_type \in TransTypes, form \in Forms :
          AddTransaction(text, trans_type, form)
    \/ \E trans_id \in Ids : DeleteTransaction(trans_id)
    \/ \E text \in SignedBudgetTexts : SetBudget(text)
    \/ Start

SpecSignedBudget == Init /\ [][NextSignedBudget]_vars

\* BasicWalletGUI runs
SpecBasic == Init /\ [][NextBasic]_vars

\* TaskPanel runs
SpecPanel == Init /\ [][NextPanel]_vars

\* ------------------------------------------------------------------ claims: PersonalWallet

ValidTexts == {t \in AmountTexts : t.ok}

RECURSIVE SignedSum(_)
SignedSum(txs) ==
    IF txs = <<>> THEN Zero2
    ELSE IF Head(txs).type = "Income" THEN DecAdd(SignedSum(Tail(txs)), AmountOf(Head(txs)))
    ELSE DecSub(SignedSum(Tail(txs)), AmountOf(Head(txs)))

\* C1: after every sequence of add_transaction and delete_transaction calls the
\* balance equals the sum of the amounts of the Income records minus the sum of
\* the amounts of the Expense records currently in transactions.
C1_BalanceIsSumOfRecords == running => DecEq(balance, SignedSum(transactions))

DistinctIds ==
    \A i, j \in 1..Len(transactions) : i # j => transactions[i].id # transactions[j].id

\* C2: the records in transactions have pairwise distinct ids, and every id
\* add_transaction assigns is greater than every id it assigned before, the ids
\* of deleted records included.
C2_IdsUniqueNeverReused ==
    /\ [](running => DistinctIds)
    /\ [][\A text \in AmountTexts, trans_type \in TransTypes, form \in Forms :
            (AddTransaction(text, trans_type, form) /\ last'.op = "add" /\ last'.ok)
                => last'.id > maxId]_vars

\* what C3 says of one call add_transaction(text, "expense", ...) that returns
ExpenseContract(text, form) ==
    (AddTransaction(text, "expense", form) /\ running') =>
        IF DecGt(ParseDecimal(text), balance)
        THEN /\ ~last'.ok
             /\ last'.msg = "Insufficient balance for this expense"
             /\ balance' = balance
             /\ Len(transactions') = Len(transactions)
        ELSE /\ last'.ok
             /\ balance' = DecSub(balance, ParseDecimal(text))
             /\ Len(transactions') = Len(transactions) + 1

\* C3 as stated: an expense whose amount is greater than the balance is rejected
\* with the insufficient-balance message and changes neither the balance nor the
\* number of records; an expense whose amount is at most the balance is accepted
\* and lowers the balance by exactly that amount.
C3_ExpenseAnyAmount ==
    [][\A text \in ValidTexts, form \in Forms : ExpenseContract(text, form)]_vars

\* C3 as amended: the same, for an expense whose amount is greater than zero.
C3_ExpensePositiveAmount ==
    [][\A text \in ValidTexts, form \in Forms :
            ParseDecimal(text).c > 0 => ExpenseContract(text, form)]_vars

C3_Witness ==
    /\ last.op = "add"
    /\ ~last.ok
    /\ last.msg = "Insufficient balance for this expense"
    /\ balance.c > 0
    /\ transactions # <<>>

\* C4: the balance is greater than or equal to zero in every state reachable by
\* add_transaction and delete_transaction calls.
C4_BalanceNonNegative == running => balance.c >= 0

\* C5: delete_transaction(id) right after delete_transaction(id) returns failure
\* with 'Transaction not found' and leaves balance and transactions unchanged.
C5_SecondDeleteNotFound ==
    [][\A trans_id \in Ids :
            (last.op = "delete" /\ last.id = trans_id /\ DeleteTransaction(trans_id))
                => /\ ~last'.ok
                   /\ last'.msg = "Transaction not found"
                   /\ balance' = balance
                   /\ transactions' = transactions]_vars

C5_Witness ==
    /\ last.op = "delete"
    /\ last.rep
    /\ ~last.ok
    /\ transactions # <<>>

\* C6: a successful add_transaction immediately followed by delete_transaction of
\* the id just assigned restores the balance and the transactions list to what
\* they were before the add.
C6_AddThenDeleteRestores ==
    [][\A trans_id \in Ids :
            (last.op = "add" /\ last.ok /\ last.id = trans_id
                /\ DeleteTransaction(trans_id) /\ running')
                => /\ DecEq(balance', last.pre.balance)
                   /\ transactions' = last.pre.transactions]_vars

\* C7: a successful save_data followed by load_data in a fresh PersonalWallet on
\* the same file yields the same balance, budget and transactions.
C7_SaveLoadRoundTrip ==
    [][(running /\ last.saved /\ Start)
            => /\ last'.ok
               /\ transactions' = transactions
               /\ balance' = balance
               /\ budget' = budget]_vars

C7_Witness ==
    /\ last.op = "start"
    /\ last.saved
    /\ Len(transactions) = 2
    /\ balance.p = 3
    /\ budget # Zero2

\* C9: when the process dies during a save, the data file afterwards holds a
\* complete snapshot, never an empty or truncated one.
C9_CrashLeavesCompleteFile == last.op = "crash" => data_file.kind = "json"

\* ------------------------------------------------------------------ claims: TaskPanel

\* the task dicts of items, without the ids
TaskFields(t) ==
    [category |-> t.category, priority |-> t.priority, text |-> t.text,
     created |-> t.created, done |-> t.done]

StoredTasks == [i \in 1..Len(items) |-> TaskFields(Meta(items[i]))]

FileTasks == [i \in 1..Len(tasks_file.doc) |-> TaskFields(tasks_file.doc[i])]

\* C8: after every add_task, delete_selected, clear_all, mark_one or 'Save now'
\* that wrote the file, under any search text and filters, the tasks in the file
\* are exactly the tasks in items, with category, priority, text, created time
\* and done flag.
C8_FileHoldsEveryTask ==
    (panel_running /\ panel_last.saved) => (tasks_file.kind = "json" /\ FileTasks = StoredTasks)

\* ------------------------------------------------------------------ claims: startup

\* C10: with no data file at startup each program starts empty: BasicWalletGUI
\* and PersonalWallet with balance zero and no transactions, the task panel with
\* no tasks.
C10_StartsEmptyWithoutFile ==
    /\ (last.op = "start" /\ last.type = "absent")
            => (last.ok /\ DecEq(balance, Zero2) /\ transactions = <<>>)
    /\ (basic_last.op = "start" /\ basic_last.file = "absent" /\ basic_running)
            => (basic_last.ok /\ basic_balance = 0 /\ basic_transactions = <<>>)
    /\ (panel_last.op = "start" /\ tasks_file.kind = "absent") => (panel_last.ok /\ items = <<>>)

\* C11: when the data file exists and loading it fails part-way (here: a
\* balance or budget that is not a decimal), PersonalWallet starts from the fully
\* empty state: no transactions, zero balance, zero budget.
C11_FailedLoadStartsEmpty ==
    (last.op = "start" /\ ~last.ok)
        => (transactions = <<>> /\ DecEq(balance, Zero2) /\ DecEq(budget, Zero2))

\* C12: starting a program against a malformed data file does not write to the
\* file: after the start the file content is the content before it.
C12_StartKeepsMalformedFile ==
    /\ [][(Start /\ data_file.kind = "truncated") => data_file' = data_file]_vars
    /\ [][(BasicStart /\ basic_file.kind = "truncated") => basic_file' = basic_file]_vars
    /\ [][(PanelStart /\ tasks_file.kind = "truncated") => tasks_file' = tasks_file]_vars

\* C13: add_transaction rejects, with no change to balance or transactions, a
\* call whose category is not in categories['income'] for an income or not in
\* categories['expense'] for an expense.
C13_ForeignCategoryRejected ==
    [][\A text \in AmountTexts, trans_type \in DOMAIN categories, form \in Forms :
            (AddTransaction(text, trans_type, form) /\ form.category \notin categories[trans_type])
                => /\ ~last'.ok
                   /\ balance' = balance
                   /\ transactions' = transactions]_vars

\* C14: a failing add_transaction (amount zero, negative or not a decimal; type
\* other than income/expense; insufficient balance) and a failing
\* delete_transaction (id absent) leave balance, budget, transactions and the
\* data file exactly as they were before the call.
C14_FailedCallChangesNothing ==
    [][~last'.ok =>
        /\ \A text \in AmountTexts, trans_type \in TransTypes, form \in Forms :
                AddTransaction(text, trans_type, form)
                    => UNCHANGED <<balance, budget, transactions, data_file>>
        /\ \A trans_id \in Ids :
                DeleteTransaction(trans_id)
                    => UNCHANGED <<balance, budget, transactions, data_file>>]_vars

C14_Witness ==
    /\ last.op = "add"
    /\ ~last.ok
    /\ last.msg = "Invalid transaction type"
    /\ transactions # <<>>
    /\ budget.c # 0
    /\ data_file.kind = "json"

\* C15: get_monthly_data(months=N) returns exactly N month keys, in ascending
\* order, for every transaction list, also when the transactions fall in fewer
\* than N distinct months.
C15_MonthlyDataHasNKeys ==
    running =>
        \A months \in MonthsArgs :
            LET data == get_monthly_data(Self, months)
            IN /\ Len(data) = months
               /\ \A i, j \in 1..Len(data) :
                    i < j => MonthOrd(data[i].month) < MonthOrd(data[j].month)

\* the items add_task can make
SomeItems ==
    {Item(id, cat, pr, text, Stamp, done) :
        id \in 1..MaxNextId, cat \in Range(CATEGORIES), pr \in PriorityChoices,
        text \in TaskTexts \ {""}, done \in BOOLEAN}

\* C16: with every predicate unset the filter returns exactly the records of the
\* store: search_transactions() with no arguments, or with 'All' for type and
\* category, returns the same set of records as get_transactions(), and in the
\* task panel with empty search text and both filters at 'All' every item passes
\* _passes_filters.
C16_UnsetFilterReturnsAll ==
    /\ running =>
            \A search_type \in {None, "All"}, category \in {None, "All"} :
                LET results == search_transactions(Self, search_type, category, None, None)
                IN /\ Range(results) = Range(get_transactions(Self))
                   /\ Range(results) = Range(transactions)
                   /\ Len(results) = Len(transactions)
    /\ \A it \in SomeItems : passes_filters(it, Lower(Chars("")), "All", "All")

C16_Witness ==
    /\ running
    /\ Len(transactions) = 2
    /\ transactions[1].id = transactions[2].id
    /\ Len(search_transactions(Self, "Income", None, None, None)) = 1
    /\ \E it \in SomeItems : ~passes_filters(it, Lower(Chars("")), "Completed", "All")

\* the number of tasks of items that satisfy P
CountItems(P(_)) == Cardinality({i \in 1..Len(items) : P(items[i])})

\* C17: with no search text and both filters at 'All', after any sequence of
\* add_task, mark_one and delete_selected the statistics report completed = the
\* number of tasks of items with done true, pending = the number with done
\* false, total = the number of tasks of items, and per category the number of
\* tasks of that category in items.
C17_StatsMatchItems ==
    (panel_running /\ search_var = "" /\ filter_var = "All" /\ category_filter_var = "All")
        => LET completed == CountItems(LAMBDA it : it.done)
               pending == CountItems(LAMBDA it : ~it.done)
               stats == show_stats(metas)
           IN /\ stats_label = [completed |-> completed, pending |-> pending,
                                 total |-> Len(items)]
              /\ stats.completed = completed
              /\ stats.pending = pending
              /\ stats.total = Len(items)
              /\ stats.completed + stats.pending = stats.total
              /\ \A cat \in Range(CATEGORIES) :
                    CountItems(LAMBDA it : it.cat = cat)
                        = IF cat \in DOMAIN stats.category_stats
                          THEN stats.category_stats[cat] ELSE 0
              /\ DOMAIN stats.category_stats \subseteq Range(CATEGORIES)

C17_Witness ==
    /\ panel_running
    /\ search_var = "" /\ filter_var = "All" /\ category_filter_var = "All"
    /\ panel_last.op = "mark_one"
    /\ Len(items) = 2
    /\ items[1].cat # items[2].cat
    /\ items[1].done # items[2].done
    /\ next_id > 3

\* C18: the id of a task never changes once assigned: every task that is in the
\* file after a save has the same id after the program is restarted and
\* load_tasks has run, whatever was deleted before.
C18_IdsSurviveRestart ==
    [][(panel_running /\ panel_last.saved /\ tasks_file.kind = "json" /\ PanelStart)
            => \A k \in 1..Len(tasks_file.doc) :
                    \E i \in 1..Len(items') : Meta(items'[i]) = tasks_file.doc[k]]_vars

\* the wallet is w after the step, and the session goes on
Holds(w) ==
    /\ running'
    /\ transactions' = w.transactions
    /\ balance' = w.balance
    /\ budget' = w.budget

\* the step was a call that succeeded and whose write of the file failed
WriteFailed == last'.ok /\ ~last'.saved /\ last'.op # "crash" /\ data_file'.kind # "json"

\* C19: when writing the file fails during save_data (called from
\* add_transaction, delete_transaction or set_budget) the in-memory mutation is
\* kept: balance, budget and transactions hold the values the mutation produced
\* and the session continues on them.
C19_WriteFailureKeepsMutation ==
    [][WriteFailed =>
        /\ \A text \in AmountTexts, trans_type \in TransTypes, form \in Forms :
                AddTransaction(text, trans_type, form)
                    => /\ Holds(add_transaction(Self, text, trans_type, form.category,
                                                form.description, Today).self)
                       /\ Len(transactions') = Len(transactions) + 1
        /\ \A trans_id \in Ids :
                DeleteTransaction(trans_id)
                    => /\ Holds(delete_transaction(Self, trans_id).self)
                       /\ Len(transactions') < Len(transactions)
        /\ \A text \in BudgetTexts :
                SetBudget(text)
                    => /\ Holds(set_budget(Self, text).self)
                       /\ budget' = ParseDecimal(text)]_vars

\* a delete whose write failed left the remaining record and the budget in memory
C19_Witness ==
    /\ running
    /\ last.op = "delete"
    /\ last.ok
    /\ ~last.saved
    /\ data_file.kind = "truncated"
    /\ Len(transactions) = 1
    /\ budget.c # 0

\* the file holds the balance, budget and transactions that are in memory
FileMatchesMemory ==
    /\ data_file.kind = "json"
    /\ data_file.doc.transactions = transactions
    /\ data_file.doc.balance.ok /\ ParseDecimal(data_file.doc.balance) = balance
    /\ data_file.doc.budget.ok /\ ParseDecimal(data_file.doc.budget) = budget

\* the last call was an add_transaction, delete_transaction or set_budget that
\* returned success
Mutated == running /\ last.op \in {"add", "delete", "budget"} /\ last.ok

\* C20 as stated: every successful add_transaction, delete_transaction and
\* set_budget writes the file before it returns, and between two operations
\* there is no state in which memory holds a committed mutation that the file
\* lacks.
C20_MemoryNeverAheadOfFile == Mutated => FileMatchesMemory

\* C20 as amended: every successful add_transaction, delete_transaction and
\* set_budget writes the file before it returns, and when the write succeeded
\* the file's balance, budget and transactions equal those in memory.
C20_SavedFileMatchesMemory ==
    Mutated => /\ data_file.kind # "absent"
               /\ last.saved => FileMatchesMemory

C20_Witness ==
    /\ Mutated
    /\ last.op = "delete"
    /\ last.saved
    /\ Len(transactions) = 1
    /\ balance.p = 3
    /\ budget.c # 0

\* C21: mark_one on a single selected task flips only that task's done flag and
\* leaves its other fields and every other task unchanged; mark_one twice on
\* the same task restores the items list; a completed task can be selected
\* (with the filters unset) and made pending again.
C21_MarkOneTogglesOnly ==
    /\ [][(panel_last'.op = "mark_one" /\ panel_running') =>
            \A sel \in SUBSET Range(tree) :
                (Cardinality(sel) = 1 /\ MarkOne(sel)) =>
                    /\ Len(items') = Len(items)
                    /\ \A k \in 1..Len(items) :
                        items'[k] = IF items[k].id \in sel
                                    THEN [items[k] EXCEPT !.done = ~items[k].done]
                                    ELSE items[k]]_vars
    /\ [](panel_running =>
            \A k \in 1..Len(items) :
                LET sel == {items[k].id}
                    once == mark_one(PanelSelf, sel).self
                    twice == mark_one(once, sel).self
                IN /\ twice.items = items
                   /\ once.items[k].done = ~items[k].done
                   /\ passes_filters(items[k], Lower(Chars("")), "All", "All"))

\* the last mark_one made a completed task pending again
C21_Witness ==
    /\ panel_running
    /\ panel_last.op = "mark_one"
    /\ Len(items) = 2
    /\ ~items[1].done
    /\ ~items[2].done

\* the lower-cased concatenation of category, text and created time of a task
CategoryTextCreated(it) ==
    Lower(Chars(it.cat) \o <<" ">> \o Chars(it.task) \o <<" ">> \o Chars(it.time))

\* C22: a task passes a non-empty text query if and only if the lower-cased query
\* occurs in the lower-cased concatenation of the task's category, text and
\* created time; no other field of the task makes a query match.
C22_QueryMatchesCategoryTextCreated ==
    panel_running =>
        \A k \in 1..Len(items), search \in SearchTexts \ {""} :
            LET q == Lower(Chars(search))
            IN passes_filters(items[k], q, "All", "All")
                    <=> Contains(CategoryTextCreated(items[k]), q)

Cents(txs, type_) ==
    LET of == SelectSeq(txs, LAMBDA t : t.type = type_)
    IN [i \in 1..Len(of) |-> Scaled(AmountOf(of[i]), 2)]

RECURSIVE Total(_)
Total(cents) == IF cents = <<>> THEN 0 ELSE Head(cents) + Total(Tail(cents))

\* C24: get_statistics returns total_income = the sum of the Income amounts,
\* total_expenses = the sum of the Expense amounts, net_savings = their
\* difference, transaction_count = the number of records, avg_expense =
\* total_expenses divided by the number of Expense records, largest_expense =
\* the largest Expense amount; without an Expense record avg_expense and
\* largest_expense are zero.
C24_StatisticsMatchRecords ==
    running =>
        LET stats == get_statistics(Self)
            incomes == Cents(transactions, "Income")
            expenses == Cents(transactions, "Expense")
            avg == stats.avg_expense
        IN /\ Scaled(stats.total_income, 2) = Total(incomes)
           /\ Scaled(stats.total_expenses, 2) = Total(expenses)
           /\ Scaled(stats.net_savings, 2) = Total(incomes) - Total(expenses)
           /\ stats.transaction_count = Len(transactions)
           /\ IF expenses = <<>>
              THEN avg.num.c = 0 /\ stats.largest_expense.c = 0
              ELSE /\ avg.den.c # 0
                   /\ Scaled(avg.num, 2) * Len(expenses) = Total(expenses) * Scaled(avg.den, 0)
                   /\ \A i \in 1..Len(expenses) : expenses[i] <= Scaled(stats.largest_expense, 2)
                   /\ \E i \in 1..Len(expenses) : expenses[i] = Scaled(stats.largest_expense, 2)

C24_Witness ==
    /\ running
    /\ Len(transactions) = 2
    /\ transactions[1].type = "Income"
    /\ transactions[2].type = "Expense"
    /\ AmountOf(transactions[2]).c > 0

\* the Expense amounts, in 1/100, of the records dated in the month of now
SpentThisMonth(txs, now) ==
    Total(Cents(SelectSeq(txs, LAMBDA t : MonthKey(t.date) = MonthKey(now)), "Expense"))

\* C25: get_budget_status returns none exactly when the budget equals zero;
\* otherwise spent = the sum of the Expense amounts dated in the current month,
\* remaining = budget minus spent, percentage = spent / budget * 100.
C25_BudgetStatusMatches ==
    running =>
        LET status == get_budget_status(Self, Today)
            spent == SpentThisMonth(transactions, Today)
        IN /\ status.none <=> budget.c = 0
           /\ ~status.none =>
                /\ Scaled(status.spent, 2) = spent
                /\ Mills(status.remaining) = Mills(budget) - 10 * spent
                /\ Mills(status.percentage.num) * Mills(budget)
                        = (10 * spent * 100) * Mills(status.percentage.den)

\* C26: within one session, after any sequence of add_task, delete_selected,
\* clear_all and mark_one (and after load_tasks at startup) the tasks of items
\* have pairwise distinct ids and _next_id is greater than every id of items;
\* add_task gives the new task the id _next_id and raises _next_id by one, no
\* other call of the session changes _next_id, and a rejected add_task consumes
\* no id: every id assigned is greater than every id assigned before.
C26_PanelIdsIncrease ==
    /\ [](panel_running =>
            /\ \A i, j \in 1..Len(items) : i # j => items[i].id # items[j].id
            /\ \A i \in 1..Len(items) : items[i].id < next_id)
    /\ [][(panel_running' /\ panel_last'.op # "start") =>
            /\ next_id' >= next_id
            /\ \A text \in TaskTexts, cat \in CategoryChoices, pr \in PriorityChoices :
                    AddTask(text, cat, pr) =>
                        IF text = "" \/ cat = "Category"
                        THEN next_id' = next_id /\ items' = items
                        ELSE /\ next_id' = next_id + 1
                             /\ Len(items') = Len(items) + 1
                             /\ items'[Len(items')].id = next_id
            /\ (panel_last'.op \in {"delete_selected", "clear_all", "mark_one", "save_tasks"}
                    /\ panel_last' # panel_last) => next_id' = next_id]_vars

\* a task added after the two tasks added before it were removed
C26_Witness ==
    /\ panel_running
    /\ panel_last.op = "add_task"
    /\ Len(items) = 1
    /\ items[1].id = 3
    /\ next_id = 4

\* txs without its k-th record
Without(txs, k) == SubSeq(txs, 1, k - 1) \o SubSeq(txs, k + 1, Len(txs))

\* C27: a successful delete_transaction(id) removes exactly one record: the
\* number of records decreases by exactly 1, the remaining records keep their
\* relative order, and the balance changes by exactly the signed amount of the
\* removed record.
C27_DeleteRemovesOneRecord ==
    [][(last'.op = "delete" /\ last'.ok /\ running') =>
        \A trans_id \in Ids :
            DeleteTransaction(trans_id) =>
                /\ Len(transactions') = Len(transactions) - 1
                /\ \E k \in 1..Len(transactions) :
                    /\ transactions[k].id = trans_id
                    /\ transactions' = Without(transactions, k)
                    /\ DecEq(balance',
                             IF transactions[k].type = "Income"
                             THEN DecSub(balance, AmountOf(transactions[k]))
                             ELSE DecAdd(balance, AmountOf(transactions[k])))]_vars

\* C28: in every state reachable by add_transaction and delete_transaction the
\* net_savings that get_statistics computes from the display strings of the
\* records equals the running balance.
C28_NetSavingsIsBalance == running => DecEq(get_statistics(Self).net_savings, balance)

\* C29: the statistics shown after any operation count all tasks of the store
\* whatever search text and filters are active: total = the number of tasks of
\* items and completed = the number of tasks of items with done true, also when
\* the filter hides some tasks.
C29_StatsCountHiddenTasks ==
    panel_running =>
        /\ stats_label.total = Len(items)
        /\ stats_label.completed = CountItems(LAMBDA it : it.done)
        /\ show_stats(metas).total = Len(items)
        /\ show_stats(metas).completed = CountItems(LAMBDA it : it.done)

\* text, priority and done flag of an entry of tasks_data or of a task of items
Core(e) == [task |-> e.task, priority |-> e.priority, done |-> e.done]

\* C30: after every add_task, delete_selected, clear_all and mark_one, for each
\* category tasks_data[category] has exactly one entry per task of that
\* category in items, with the same text, priority and done flag, also when two
\* tasks of the category have the same text.
C30_TasksDataMatchesItems ==
    panel_running =>
        \A cat \in Range(CATEGORIES) :
            LET entries == tasks_data[cat]
                tasks == SelectSeq(items, LAMBDA it : it.cat = cat)
            IN /\ Len(entries) = Len(tasks)
               /\ \A core \in {Core(entries[i]) : i \in 1..Len(entries)}
                            \cup {Core(tasks[i]) : i \in 1..Len(tasks)} :
                    Cardinality({i \in 1..Len(entries) : Core(entries[i]) = core})
                        = Cardinality({i \in 1..Len(tasks) : Core(tasks[i]) = core})

====
